---- MODULE Spec2Model ----
(***************************************************************************)
(* Project control (packages/server/projects/control) and the project's    *)
(* hub link (packages/project/servers/hub) of CoCalc.                      *)
(*                                                                         *)
(* One step of a call is what the JavaScript event loop runs without       *)
(* interruption: from the resumption of one `await` to the next `await`.   *)
(***************************************************************************)
EXTENDS Integers, Sequences, FiniteSets, TLC

\* Number of lifecycle calls (start/stop/restart) made on the one Controller.
MaxCalls == 2

Calls == 1..MaxCalls

\* JavaScript's undefined / null.
Null == "undefined"

VARIABLES
  stateChanging,  \* BaseProject.stateChanging: Null, "starting" or "stopping"
  calls,          \* per call: operation, position (the await it is parked at), history
  running,        \* the backend: what isProjectRunning(HOME) answers
  daemonPending,  \* a launched project daemon that has not come up yet
  status,         \* the backend: the keys getStatus(HOME) exposes
  dbState,        \* durable project record: state
  dbStatus,       \* durable project record: status
  dbWrites,       \* set_project_state writes issued and not awaited, still in flight
  run_quota       \* durable project record: run_quota

ctlVars ==
  <<stateChanging, calls, running, daemonPending, status, dbState, dbStatus, dbWrites,
    run_quota>>

\* The process-local registry of Controllers (base.ts, projectCache).
VARIABLES
  projectCache,   \* project_id -> the object its WeakRef was made for (0: no entry)
  objects,        \* every Controller object constructed so far -> its project_id
  collected,      \* the objects the garbage collector has reclaimed
  refs,           \* the objects some caller holds a strong reference to
  lastGet,        \* the latest get(project_id) and what it returned
  operating       \* the objects with a start() or stop() in flight

regVars == <<projectCache, objects, collected, refs, lastGet, operating>>

\* The project's TCP server for the hubs (packages/project/servers/hub).
VARIABLES
  secretToken,    \* the project's secret token ("" when undefined)
  server,         \* init(): "new", "threw", "listening", "ready" (port file written)
  sock,           \* per connection: the socket handed to handleConnection
  active_socket,  \* client.active_socket: the socket recorded as active (0: none)
  now,            \* the clock read by new Date()
  last,           \* the latest event handled and what handling it did, in order
  pending         \* jupyter handlers awaiting their result

hubVars == <<secretToken, server, sock, active_socket, now, last, pending>>

\* One call of BaseProject.wait (base.ts), with its clock.
VARIABLES
  maxTime,        \* opts.maxTime, in ms
  trueAt,         \* the probe at which until() first answers true (0: never)
  waitPc,         \* "new", "test", "until", "delay", "returned", "threw"
  elapsed,        \* new Date().valueOf() - t0, in ms
  d,              \* the delay variable d, in thousandths of a ms
  probes,         \* the number of calls of until() made so far
  instantaneous   \* every probe so far took no time

waitVars == <<maxTime, trueAt, waitPc, elapsed, d, probes, instantaneous>>

\* Quota reconciliation: BaseProject.setAllQuotas (base.ts).
VARIABLES
  settings,       \* durable project record: what the quota is computed from
  sq,             \* the setAllQuotas call: position, what it read, restarts it began
  quotaCalls,     \* the number of setAllQuotas calls made
  background,     \* the calls whose restart() runs in an un-awaited async closure
  log,            \* what those closures logged
  uncaught        \* a rejection nothing handles has surfaced

quotaVars == <<settings, sq, quotaCalls, background, log, uncaught>>

\* One subprocess run by doSpawn (execute-code).
VARIABLES
  opts,           \* opts.timeout (seconds, 0: none) and opts.err_on_exit
  spawnPc,        \* "idle", "spawned" (handlers listening), "returned" (spawn failed)
  child,          \* r: r.exitCode, and whether "exit" and "error" have been emitted
  stdout_is_done, \* the local variables of doSpawn
  stderr_is_done,
  exit_code,
  killed,
  callback_done,
  ran_code,
  timer,          \* setTimeout(f, ...): "none", "armed", "fired"
  cbs             \* the calls of cb made so far, in order

execVars ==
  <<opts, spawnPc, child, stdout_is_done, stderr_is_done, exit_code, killed,
    callback_done, ran_code, timer, cbs>>

vars == <<ctlVars, regVars, hubVars, waitVars, quotaVars, execVars>>

\* Steps of the controller leave the registry and the hub server alone, and so on.
OnlyCtl == UNCHANGED <<regVars, hubVars, waitVars, quotaVars, execVars>>
OnlyReg == UNCHANGED <<ctlVars, hubVars, waitVars, quotaVars, execVars>>
OnlyHub == UNCHANGED <<ctlVars, regVars, waitVars, quotaVars, execVars>>
OnlyWait == UNCHANGED <<ctlVars, regVars, hubVars, quotaVars, execVars>>
OnlyQuota == UNCHANGED <<regVars, hubVars, waitVars, execVars>>
OnlyExec == UNCHANGED <<ctlVars, regVars, hubVars, waitVars, quotaVars>>

----------------------------------------------------------------------------
(* Project controller: single-user.ts on top of base.ts                    *)

NoStatus == [secret_token |-> FALSE, hub_server_port |-> FALSE]

\* What a quota is computed from (settings, users, site_license, site settings)
\* taken together: the memory upgrade and the idle timeout granted.
DefaultSettings == [memory |-> 1, idle_timeout |-> 1800]
Settings == [memory : {1, 2}, idle_timeout : {1800, 3600}]

\* A project record without a run_quota.
NoQuota == [absent |-> TRUE]

\* quota(settings, users, site_license, site_settings) of
\* @cocalc/util/upgrades/quota: the QuotaRecord, memory in MB.
quota(x) ==
  [memory_limit |-> 1000 * x.memory, idle_timeout |-> x.idle_timeout,
   always_running |-> FALSE]

\* A call that has not been made yet. op: the operation the caller invoked;
\* cur: which of start()/stop() it is executing; pc: the await it is parked at;
\* err: an exception is propagating; setMarker .. cleared: the history of the
\* start() or stop() being executed; ret: what state() returned ("address"
\* for address()); error: the message address() threw; read, ip: the status
\* address() probed and whether the state it probed has an ip; live: the
\* backend was running at every probe address() made.
NewCall ==
  [op |-> "none", cur |-> "none", pc |-> "idle", err |-> FALSE,
   setMarker |-> FALSE, launched |-> FALSE, signalled |-> FALSE,
   cleared |-> FALSE,
   ret |-> Null, error |-> "", read |-> NoStatus, ip |-> FALSE, live |-> TRUE]

InitCtl ==
  /\ stateChanging = Null
  /\ calls = [p \in Calls |-> NewCall]
  /\ running \in BOOLEAN
  /\ daemonPending = FALSE
  /\ status = NoStatus
  /\ dbState \in {"opened", "running"}
  /\ dbStatus = NoStatus
  /\ dbWrites = {}
  /\ run_quota = quota(DefaultSettings)

\* A test that never finds a transition in flight.
neverInTransition(marker) == FALSE

\* `if (this.stateChanging != null) return;` at the head of start() and stop().
inTransition(marker) == marker # Null

\* getState(HOME) of ./util: the observed state of the backend.
getState == IF running THEN "running" ELSE "opened"

\* The calls are numbered in the order in which they are made.
NextToCall(p) ==
  calls[p].pc = "idle" /\ (IF p = 1 THEN TRUE ELSE calls[p - 1].pc # "idle")

\* start() returned: to the caller, or to address(), which goes on with
\* `await this.status()`.
startReturned(r) ==
  IF r.op = "address"
    THEN [NewCall EXCEPT !.op = r.op, !.cur = "address", !.pc = "address_status"]
    ELSE [NewCall EXCEPT !.op = r.op, !.pc = "returned"]

\* A head of start() that goes ahead whatever the marker.
startEntryAlways(r, marker) ==
  [NewCall EXCEPT !.op = r.op, !.cur = "start", !.pc = "start_isProjectRunning"]

\* The head of start(), with the marker as it is when start() is invoked:
\* dropped when a transition is in flight, else `await isProjectRunning(HOME)`.
startEntry(r, marker) ==
  IF inTransition(marker)
    THEN startReturned(r)
    ELSE [NewCall EXCEPT !.op = r.op, !.cur = "start", !.pc = "start_isProjectRunning"]

\* A restart() that goes on to start() whether or not its stop() threw.
FinishStartsAnyway(r, marker) ==
  IF r.op = "restart" /\ r.cur = "stop" THEN startEntry(r, marker)
  ELSE IF r.err THEN [NewCall EXCEPT !.op = r.op, !.pc = "threw"]
  ELSE startReturned(r)

\* Where the end of start()/stop() leaves the call (the history of the start()
\* or stop() that ended is dropped): restart() goes on to start() when its
\* stop() returned, and only then.
Finish(r, marker) ==
  IF r.err THEN [NewCall EXCEPT !.op = r.op, !.pc = "threw"]
  ELSE IF r.op = "restart" /\ r.cur = "stop" THEN startEntry(r, marker)
  ELSE startReturned(r)

\* The head of stop().
stopEntry(r, marker) ==
  LET s == [r EXCEPT !.cur = "stop"]
  IN IF inTransition(marker) THEN Finish(s, marker)
     ELSE [s EXCEPT !.pc = "stop_isProjectRunning"]

\* A finally block that leaves the marker as it found it.
finallyMarkerKept(marker) == marker

\* `this.stateChanging = undefined` of the finally blocks.
finallyMarker(marker) == Null

\* The finally block of start() and stop(), entered with call record r (threw:
\* an exception is propagating): clear the marker, then `await this.state()`,
\* which answers the marker at once when one is set and probes otherwise.
Finally(p, r, threw) ==
  LET m == finallyMarker(stateChanging)
      c == [r EXCEPT !.err = threw, !.cleared = (m = Null)]
  IN /\ stateChanging' = m
     /\ calls' = [calls EXCEPT ![p] =
           IF inTransition(m) THEN Finish(c, m)
           ELSE [c EXCEPT !.pc = "finally_getState"]]

UnchangedBackend == UNCHANGED <<running, daemonPending, status>>
UnchangedDb == UNCHANGED <<dbState, dbStatus, dbWrites, run_quota>>

\* A caller invokes start().
start(p) ==
  /\ OnlyCtl
  /\ NextToCall(p)
  /\ calls' = [calls EXCEPT ![p] = startEntry([@ EXCEPT !.op = "start"], stateChanging)]
  /\ UNCHANGED stateChanging
  /\ UnchangedBackend /\ UnchangedDb

\* A start() that brings the project up without asking whether it runs.
start_isProjectRunning_skipped(p) ==
  /\ OnlyCtl
  /\ calls[p].pc = "start_isProjectRunning"
  /\ stateChanging' = "starting"
  /\ dbState' = "starting"
  /\ calls' = [calls EXCEPT ![p].pc = "start_siteLicenseHook", ![p].setMarker = TRUE]
  /\ UnchangedBackend /\ UNCHANGED <<dbStatus, dbWrites, run_quota>>

\* start(): isProjectRunning answered.
start_isProjectRunning(p) ==
  /\ OnlyCtl
  /\ calls[p].pc = "start_isProjectRunning"
  /\ IF running
       THEN \* already running: await saveStateToDatabase({state: "running"}); return
            /\ dbState' = "running"
            /\ calls' = [calls EXCEPT ![p] = Finish(@, stateChanging)]
            /\ UNCHANGED stateChanging
       ELSE \* try { this.stateChanging = {state: "starting"}; await save...
            /\ stateChanging' = "starting"
            /\ dbState' = "starting"
            /\ calls' = [calls EXCEPT ![p].pc = "start_siteLicenseHook",
                                      ![p].setMarker = TRUE]
  /\ UnchangedBackend /\ UNCHANGED <<dbStatus, dbWrites, run_quota>>

\* start(): the pre-flight steps, one await after the other: siteLicenseHook,
\* setRunQuota (which stores the freshly computed quota as run_quota), then
\* mkdir / ensureConfFilesExists / getEnvironment / setupDataPath. Each may
\* throw.
\* A pre-flight that goes from the quota straight to the bring-up.
PreflightNextNoSetup(pc) ==
  CASE pc = "start_siteLicenseHook" -> "start_setRunQuota"
    [] pc = "start_setRunQuota" -> "start_launchProjectDaemon"
    [] pc = "start_setup" -> "start_launchProjectDaemon"

PreflightNext(pc) ==
  CASE pc = "start_siteLicenseHook" -> "start_setRunQuota"
    [] pc = "start_setRunQuota" -> "start_setup"
    [] pc = "start_setup" -> "start_launchProjectDaemon"

start_preflight(p) ==
  /\ OnlyCtl
  /\ calls[p].pc \in {"start_siteLicenseHook", "start_setRunQuota", "start_setup"}
  /\ \/ /\ calls' = [calls EXCEPT ![p].pc = PreflightNext(calls[p].pc)]
        /\ run_quota' = IF calls[p].pc = "start_setRunQuota"
                          THEN quota(settings) ELSE run_quota
        /\ UNCHANGED stateChanging
     \/ /\ Finally(p, calls[p], TRUE)
        /\ UNCHANGED run_quota
  /\ UnchangedBackend /\ UNCHANGED <<dbState, dbStatus, dbWrites>>

\* start(): `await launchProjectDaemon(env)`: the bring-up. The daemon is forked
\* and comes up (or not) on its own; then wait() makes its first probe.
start_launchProjectDaemon(p) ==
  /\ OnlyCtl
  /\ calls[p].pc = "start_launchProjectDaemon"
  /\ \/ /\ daemonPending' = TRUE
        /\ calls' = [calls EXCEPT ![p].pc = "start_until", ![p].launched = TRUE]
        /\ UNCHANGED stateChanging
     \/ /\ Finally(p, [calls[p] EXCEPT !.launched = TRUE], TRUE)
        /\ UNCHANGED daemonPending
  /\ UNCHANGED <<running, status>> /\ UnchangedDb

\* A wait that, out of time, goes back to the bring-up or to the signal.
wait_retry_again(p, again) ==
  /\ calls' = [calls EXCEPT ![p].pc =
       IF again = "start_until" THEN "start_launchProjectDaemon" ELSE "stop_getProjectPID"]
  /\ UNCHANGED stateChanging

\* wait(): until() answered false: delay(d), then probe again while
\* elapsed <= maxTime, else throw.
wait_retry(p, again) ==
  \/ /\ calls' = [calls EXCEPT ![p].pc = again]
     /\ UNCHANGED stateChanging
  \/ Finally(p, calls[p], TRUE)

\* start(): until() of the wait: isProjectRunning answered.
start_until(p) ==
  /\ OnlyCtl
  /\ calls[p].pc = "start_until"
  /\ IF running
       THEN /\ calls' = [calls EXCEPT ![p].pc = "start_status"]
            /\ UNCHANGED stateChanging
       ELSE wait_retry(p, "start_until")
  /\ UnchangedBackend /\ UnchangedDb

\* A readiness test that asks for the secret token only.
readyTokenOnly(st) == st.secret_token

\* `return !!status.secret_token && !!status["hub-server.port"];`
ready(st) == st.secret_token /\ st.hub_server_port

\* start(): until() of the wait: this.status() probed and persisted the status;
\* the wait is satisfied when it exposes a secret token and a hub-server port.
start_status(p) ==
  /\ OnlyCtl
  /\ calls[p].pc = "start_status"
  /\ dbStatus' = status
  /\ IF ready(status)
       THEN Finally(p, calls[p], FALSE)
       ELSE wait_retry(p, "start_until")
  /\ UnchangedBackend /\ UNCHANGED <<dbState, dbWrites, run_quota>>

\* state() inside the finally block: getState answered; the state is written
\* with saveStateToDatabase, which state() does not await.
finally_getState(p) ==
  /\ OnlyCtl
  /\ calls[p].pc = "finally_getState"
  /\ dbWrites' = dbWrites \cup {getState}
  /\ calls' = [calls EXCEPT ![p] = Finish(@, stateChanging)]
  /\ UNCHANGED <<stateChanging, dbState, dbStatus, run_quota>>
  /\ UnchangedBackend

\* A caller invokes stop().
stop(p) ==
  /\ OnlyCtl
  /\ NextToCall(p)
  /\ calls' = [calls EXCEPT ![p] = stopEntry([@ EXCEPT !.op = "stop"], stateChanging)]
  /\ UNCHANGED stateChanging
  /\ UnchangedBackend /\ UnchangedDb

\* A stop() that tears the project down without asking whether it runs.
stop_isProjectRunning_skipped(p) ==
  /\ OnlyCtl
  /\ calls[p].pc = "stop_isProjectRunning"
  /\ stateChanging' = "stopping"
  /\ dbState' = "stopping"
  /\ calls' = [calls EXCEPT ![p].pc = "stop_getProjectPID", ![p].setMarker = TRUE]
  /\ UnchangedBackend /\ UNCHANGED <<dbStatus, dbWrites, run_quota>>

\* stop(): isProjectRunning answered.
stop_isProjectRunning(p) ==
  /\ OnlyCtl
  /\ calls[p].pc = "stop_isProjectRunning"
  /\ IF ~running
       THEN \* await saveStateToDatabase({state: "opened"}); return
            /\ dbState' = "opened"
            /\ calls' = [calls EXCEPT ![p] = Finish(@, stateChanging)]
            /\ UNCHANGED stateChanging
       ELSE /\ stateChanging' = "stopping"
            /\ dbState' = "stopping"
            /\ calls' = [calls EXCEPT ![p].pc = "stop_getProjectPID",
                                      ![p].setMarker = TRUE]
  /\ UnchangedBackend /\ UNCHANGED <<dbStatus, dbWrites, run_quota>>

\* stop(): getProjectPID answered: kill(-pid), or no pid (the exception is
\* swallowed); then wait() makes its first probe.
stop_getProjectPID(p) ==
  /\ OnlyCtl
  /\ calls[p].pc = "stop_getProjectPID"
  /\ \E found \in BOOLEAN :
       calls' = [calls EXCEPT ![p].pc = "stop_until", ![p].signalled = found]
  /\ UNCHANGED stateChanging
  /\ UnchangedBackend /\ UnchangedDb

\* A stop() that does not wait for the backend to stop.
stop_until_no_wait(p) ==
  /\ OnlyCtl
  /\ calls[p].pc = "stop_until"
  /\ Finally(p, calls[p], FALSE)
  /\ UnchangedBackend /\ UnchangedDb

\* stop(): until() of the wait: isProjectRunning answered.
stop_until(p) ==
  /\ OnlyCtl
  /\ calls[p].pc = "stop_until"
  /\ IF ~running
       THEN Finally(p, calls[p], FALSE)
       ELSE wait_retry(p, "stop_until")
  /\ UnchangedBackend /\ UnchangedDb

\* A caller invokes restart(): `await this.stop(); await this.start();`
restart(p) ==
  /\ OnlyCtl
  /\ NextToCall(p)
  /\ calls' = [calls EXCEPT ![p] = stopEntry([@ EXCEPT !.op = "restart"], stateChanging)]
  /\ UNCHANGED stateChanging
  /\ UnchangedBackend /\ UnchangedDb

\* A caller invokes state(): the marker when one is set, else
\* `await getState(this.HOME)`.
state(p) ==
  /\ OnlyCtl
  /\ NextToCall(p)
  /\ calls' = [calls EXCEPT ![p] =
       IF inTransition(stateChanging)
         THEN [NewCall EXCEPT !.op = "state", !.pc = "returned", !.ret = stateChanging]
         ELSE [NewCall EXCEPT !.op = "state", !.cur = "state", !.pc = "state_getState"]]
  /\ UNCHANGED stateChanging
  /\ UnchangedBackend /\ UnchangedDb

\* state(): getState answered: `this.saveStateToDatabase(state); return state;`
state_getState(p) ==
  /\ OnlyCtl
  /\ calls[p].pc = "state_getState"
  /\ dbWrites' = dbWrites \cup {getState}
  /\ calls' = [calls EXCEPT ![p] =
       [NewCall EXCEPT !.op = "state", !.pc = "returned", !.ret = getState]]
  /\ UNCHANGED <<stateChanging, dbState, dbStatus, run_quota>>
  /\ UnchangedBackend

\* A caller invokes address(): `await this.start()`.
address(p) ==
  /\ OnlyCtl
  /\ NextToCall(p)
  /\ calls' = [calls EXCEPT ![p] = startEntry([@ EXCEPT !.op = "address"], stateChanging)]
  /\ UNCHANGED stateChanging
  /\ UnchangedBackend /\ UnchangedDb

\* address() threw Error(message).
addressThrew(message) ==
  [NewCall EXCEPT !.op = "address", !.pc = "threw", !.error = message]

\* An address() that does not look at the secret token.
statusCheckedPortOnly(r, st, marker) ==
  IF ~st.hub_server_port THEN addressThrew("unable to determine project port")
  ELSE IF inTransition(marker) THEN addressThrew("unable to determine host")
  ELSE [r EXCEPT !.pc = "address_getState", !.read = st]

\* address() with the status it probed: throw without a port or without a
\* token, else `await this.state()`, which answers the marker, an object with
\* no ip, when one is set.
statusChecked(r, st, marker) ==
  IF ~st.hub_server_port THEN addressThrew("unable to determine project port")
  ELSE IF ~st.secret_token THEN addressThrew("unable to determine secret_token")
  ELSE IF inTransition(marker) THEN addressThrew("unable to determine host")
  ELSE [r EXCEPT !.pc = "address_getState", !.read = st]

\* address(): this.status() probed and persisted the status.
address_status(p) ==
  /\ OnlyCtl
  /\ calls[p].pc = "address_status"
  /\ dbStatus' = status
  /\ calls' = [calls EXCEPT ![p] =
       LET r == statusChecked(@, status, stateChanging)
       IN  IF r.pc = "address_getState" THEN [r EXCEPT !.live = running] ELSE r]
  /\ UNCHANGED <<stateChanging, dbState, dbWrites, run_quota>>
  /\ UnchangedBackend

\* address(): inside this.state(), getState answered, with an ip or without:
\* the state is written (not awaited); throw without a host, else return
\* {host, port, secret_token}.
address_getState(p) ==
  /\ OnlyCtl
  /\ calls[p].pc = "address_getState"
  /\ dbWrites' = dbWrites \cup {getState}
  /\ \E ip \in BOOLEAN :
       calls' = [calls EXCEPT ![p] =
         IF ~ip THEN addressThrew("unable to determine host")
         ELSE [NewCall EXCEPT !.op = "address", !.pc = "returned", !.ret = "address",
                              !.read = calls[p].read, !.ip = ip,
                              !.live = (calls[p].live /\ running)]]
  /\ UNCHANGED <<stateChanging, dbState, dbStatus, run_quota>>
  /\ UnchangedBackend

\* The database applies a state write that nobody awaited.
DbWrite ==
  /\ OnlyCtl
  /\ \E s \in dbWrites :
       /\ dbState' = s
       /\ dbWrites' = dbWrites \ {s}
  /\ UNCHANGED <<stateChanging, calls, dbStatus, run_quota>>
  /\ UnchangedBackend

\* The forked daemon comes up, or dies before it does.
DaemonUp ==
  /\ OnlyCtl
  /\ daemonPending
  /\ daemonPending' = FALSE
  /\ \/ running' = TRUE
     \/ UNCHANGED running
  /\ UNCHANGED <<stateChanging, calls, status>> /\ UnchangedDb

\* The running daemon writes its secret token or its hub-server port.
DaemonPublish ==
  /\ OnlyCtl
  /\ running
  /\ \/ /\ ~status.secret_token
        /\ status' = [status EXCEPT !.secret_token = TRUE]
     \/ /\ ~status.hub_server_port
        /\ status' = [status EXCEPT !.hub_server_port = TRUE]
  /\ UNCHANGED <<stateChanging, calls, running, daemonPending>> /\ UnchangedDb

\* The daemon exits (the termination signal, or a crash).
DaemonExit ==
  /\ OnlyCtl
  /\ running
  /\ running' = FALSE
  /\ status' = NoStatus
  /\ UNCHANGED <<stateChanging, calls, daemonPending>> /\ UnchangedDb

NextCtl ==
  \/ \E p \in Calls :
       \/ start(p)
       \/ start_isProjectRunning(p)
       \/ start_preflight(p)
       \/ start_launchProjectDaemon(p)
       \/ start_until(p)
       \/ start_status(p)
       \/ finally_getState(p)
       \/ stop(p)
       \/ stop_isProjectRunning(p)
       \/ stop_getProjectPID(p)
       \/ stop_until(p)
       \/ restart(p)
  \/ DbWrite
  \/ DaemonUp
  \/ DaemonPublish
  \/ DaemonExit

\* The same with state() and address() calls among them.
NextAddress ==
  \/ NextCtl
  \/ \E p \in Calls :
       \/ state(p)
       \/ state_getState(p)
       \/ address(p)
       \/ address_status(p)
       \/ address_getState(p)

----------------------------------------------------------------------------
(* Quota reconciliation: BaseProject.setAllQuotas of base.ts               *)

\* Number of setAllQuotas calls made.
MaxQuotaCalls == 1

\* `["running", "starting", "pending"]`, and what else the record may hold
\* (Null: the record has no state).
Active == {"running", "starting", "pending"}
RecordStates == Active \cup {"opened", "stopping", "archived", Null}

NoRead == [state |-> Null, run_quota |-> NoQuota, settings |-> DefaultSettings]
NewQuotaCall == [pc |-> "idle", x |-> NoRead, restarts |-> 0]

InitQuota ==
  /\ settings \in Settings
  /\ sq = NewQuotaCall
  /\ quotaCalls = 0
  /\ background = {}
  /\ log = {}
  /\ uncaught = FALSE

\* A test that takes every project for an active one.
isActiveAlways(value) == TRUE

\* `["running", "starting", "pending"].includes(x.state?.state)`
isActive(value) == value \in Active

\* A comparison that never finds two records equal.
isEqualNever(a, b) == FALSE

\* isEqual of lodash: structural equality.
isEqual(a, b) == a = b

\* A setAllQuotas that awaits the restart it began.
setAllQuotas_awaits(r) == [r EXCEPT !.pc = "restart", !.restarts = @ + 1]

\* setAllQuotas after `(async () => {...})()`: the closure is not awaited.
setAllQuotas_returns(r) == [r EXCEPT !.pc = "returned", !.restarts = @ + 1]

\* A closure without the try/catch around `await this.restart()`.
rejectsUncaught(threw) == threw

\* The closure catches what restart() throws: its promise never rejects.
rejects(threw) == FALSE

\* A caller invokes setAllQuotas(): `await callback2(db().get_project, ...)`.
setAllQuotas ==
  /\ OnlyQuota
  /\ sq.pc \in {"idle", "returned", "threw"}
  /\ quotaCalls < MaxQuotaCalls
  /\ \E p \in Calls : calls[p].pc = "idle"
  /\ sq' = [NewQuotaCall EXCEPT !.pc = "get_project"]
  /\ quotaCalls' = quotaCalls + 1
  /\ UNCHANGED <<ctlVars, settings, background, log, uncaught>>

\* setAllQuotas: get_project answered (or failed): return when the project is
\* not active, else `await getQuotaSiteSettings()`.
setAllQuotas_get_project ==
  /\ OnlyQuota
  /\ sq.pc = "get_project"
  /\ \/ sq' = [sq EXCEPT !.pc = "threw"]
     \/ sq' = [sq EXCEPT
                !.x = [state |-> dbState, run_quota |-> run_quota, settings |-> settings],
                !.pc = IF isActive(dbState) THEN "getQuotaSiteSettings" ELSE "returned"]
  /\ UNCHANGED <<ctlVars, settings, quotaCalls, background, log, uncaught>>

\* setAllQuotas: the site settings are there: compute the quota, compare it
\* with the stored run_quota, and when they differ call restart() in a closure
\* nobody awaits. restart() runs up to the first await of its stop().
setAllQuotas_getQuotaSiteSettings ==
  /\ OnlyQuota
  /\ sq.pc = "getQuotaSiteSettings"
  /\ IF isEqual(sq.x.run_quota, quota(sq.x.settings))
       THEN /\ sq' = [sq EXCEPT !.pc = "returned"]
            /\ UNCHANGED <<calls, background>>
       ELSE \E p \in Calls :
            /\ NextToCall(p)
            /\ calls' = [calls EXCEPT ![p] =
                           stopEntry([@ EXCEPT !.op = "restart"], stateChanging)]
            /\ background' = background \cup {p}
            /\ sq' = setAllQuotas_returns(sq)
  /\ UNCHANGED <<stateChanging, settings, quotaCalls, log, uncaught>>
  /\ UnchangedBackend /\ UnchangedDb

\* The closure resumes after `await this.restart()`: "restart worked", or the
\* catch branch: "restart failed".
restart_settled ==
  /\ OnlyQuota
  /\ \E p \in background :
       /\ calls[p].pc \in {"returned", "threw"}
       /\ background' = background \ {p}
       /\ log' = log \cup {[call |-> p,
                             msg |-> IF calls[p].pc = "threw"
                                       THEN "restart failed" ELSE "restart worked"]}
       /\ uncaught' = (uncaught \/ rejects(calls[p].pc = "threw"))
  /\ UNCHANGED <<ctlVars, settings, sq, quotaCalls>>

\* The steps of the restarts in flight, and the backend.
NextQuota ==
  \/ setAllQuotas
  \/ setAllQuotas_get_project
  \/ setAllQuotas_getQuotaSiteSettings
  \/ restart_settled
  \/ \E p \in Calls :
       \/ start_isProjectRunning(p)
       \/ start_preflight(p)
       \/ start_launchProjectDaemon(p)
       \/ start_until(p)
       \/ start_status(p)
       \/ finally_getState(p)
       \/ stop_isProjectRunning(p)
       \/ stop_getProjectPID(p)
       \/ stop_until(p)
  \/ DbWrite
  \/ DaemonUp
  \/ DaemonPublish
  \/ DaemonExit

\* A project record in any state, with a run_quota stored or not.
InitReconcile ==
  /\ stateChanging = Null
  /\ calls = [p \in Calls |-> NewCall]
  /\ running \in BOOLEAN
  /\ daemonPending = FALSE
  /\ status = NoStatus
  /\ dbState \in RecordStates
  /\ dbStatus = NoStatus
  /\ dbWrites = {}
  /\ run_quota \in {NoQuota, quota(DefaultSettings)}

----------------------------------------------------------------------------
(* BaseProject.wait of base.ts: polling with a growing delay               *)

\* `const MAX_START_TIME_MS = 20000; const MAX_STOP_TIME_MS = 10000;`
MAX_START_TIME_MS == 20000
MAX_STOP_TIME_MS == 10000

\* `let d = 250;`
InitialDelay == 250

\* The latest probe at which until() may first answer true.
MaxTrueAt == 4

\* The ceilings wait is called with, and a short one.
MaxTimes == {1000, MAX_STOP_TIME_MS, MAX_START_TIME_MS}

\* How long one call of until() may take, in ms.
ProbeDurations == {0, 400}

InitWait ==
  /\ maxTime \in MaxTimes
  /\ trueAt \in 0..MaxTrueAt
  /\ waitPc = "new"
  /\ elapsed = 0
  /\ d = 0
  /\ probes = 0
  /\ instantaneous = TRUE

\* A loop test that gives up at half the allowance.
withinHalfMaxTime(t, max) == t <= max \div 2

\* `new Date().valueOf() - t0 <= maxTime`
withinMaxTime(t, max) == t <= max

\* A delay that doubles.
nextDelayDoubled(delay) == delay * 2

\* `d *= 1.2`
nextDelay(delay) == (delay * 12) \div 10

\* delay(d): the timer runs for d truncated to whole milliseconds.
sleep(delay) == delay \div 1000

\* wait(opts): `const t0 = new Date().valueOf(); let d = 250;`
wait ==
  /\ OnlyWait
  /\ waitPc = "new"
  /\ waitPc' = "test"
  /\ d' = InitialDelay * 1000
  /\ UNCHANGED <<maxTime, trueAt, elapsed, probes, instantaneous>>

\* wait: the loop test: call until(), or `throw Error(err)`.
wait_test ==
  /\ OnlyWait
  /\ waitPc = "test"
  /\ IF withinMaxTime(elapsed, maxTime)
       THEN /\ waitPc' = "until"
            /\ probes' = probes + 1
       ELSE /\ waitPc' = "threw"
            /\ UNCHANGED probes
  /\ UNCHANGED <<maxTime, trueAt, elapsed, d, instantaneous>>

\* wait: `await until()` answered: return, or `await delay(d)`.
wait_until ==
  /\ OnlyWait
  /\ waitPc = "until"
  /\ \E took \in ProbeDurations :
       /\ elapsed' = elapsed + took
       /\ instantaneous' = (instantaneous /\ took = 0)
  /\ waitPc' = IF trueAt # 0 /\ probes >= trueAt THEN "returned" ELSE "delay"
  /\ UNCHANGED <<maxTime, trueAt, d, probes>>

\* wait: the delay is over: `d *= 1.2`, back to the loop test.
wait_delay ==
  /\ OnlyWait
  /\ waitPc = "delay"
  /\ elapsed' = elapsed + sleep(d)
  /\ d' = nextDelay(d)
  /\ waitPc' = "test"
  /\ UNCHANGED <<maxTime, trueAt, probes, instantaneous>>

NextWait ==
  \/ wait
  \/ wait_test
  \/ wait_until
  \/ wait_delay

----------------------------------------------------------------------------
(* Project registry: projectCache and getProject of base.ts, get of        *)
(* single-user.ts                                                          *)

\* Number of distinct project ids, and of Controller objects ever constructed.
MaxProjects == 2
MaxObjects == 3

ProjectIds == 1..MaxProjects
ObjectIds == 1..MaxObjects

InitReg ==
  /\ projectCache = [id \in ProjectIds |-> 0]
  /\ objects = [o \in ObjectIds |-> 0]
  /\ collected = {}
  /\ refs = {}
  /\ lastGet = [project_id |-> 0, object |-> 0, constructed |-> FALSE]
  /\ operating = {}

\* The Controller objects that exist: constructed and not reclaimed.
Live == {o \in ObjectIds : objects[o] # 0 /\ o \notin collected}

\* WeakRef.deref(): the object, or undefined (0) once it has been reclaimed.
deref(o) == IF o = 0 \/ o \in collected THEN 0 ELSE o

\* A lookup that never finds the registered Controller.
getProjectAbsent(id) == 0

\* getProject(project_id): `projectCache[project_id]?.deref()`
getProject(id) == deref(projectCache[id])

\* get(project_id): `getProject(project_id) ?? new Project(project_id)`; the
\* constructor registers `new WeakRef(this)` under the id. The caller holds
\* what it is given.
get(id) ==
  /\ OnlyReg
  /\ UNCHANGED operating
  /\ LET found == getProject(id) IN
       IF found # 0
         THEN /\ refs' = refs \cup {found}
              /\ lastGet' = [project_id |-> id, object |-> found, constructed |-> FALSE]
              /\ UNCHANGED <<projectCache, objects, collected>>
         ELSE \E o \in ObjectIds :
              /\ objects[o] = 0
              /\ \A o2 \in ObjectIds : o2 < o => objects[o2] # 0
              /\ objects' = [objects EXCEPT ![o] = id]
              /\ projectCache' = [projectCache EXCEPT ![id] = o]
              /\ refs' = refs \cup {o}
              /\ lastGet' = [project_id |-> id, object |-> o, constructed |-> TRUE]
              /\ UNCHANGED collected

\* A caller drops its reference to a Controller.
release(o) ==
  /\ OnlyReg
  /\ o \in refs
  /\ refs' = refs \ {o}
  /\ UNCHANGED <<projectCache, objects, collected, lastGet, operating>>

\* A caller that holds a Controller invokes start() or stop() on it: up to
\* its last await the continuation of the async method holds `this`.
operation_begins(o) ==
  /\ OnlyReg
  /\ o \in refs /\ o \notin operating
  /\ operating' = operating \cup {o}
  /\ UNCHANGED <<projectCache, objects, collected, refs, lastGet>>

\* The operation's last await has settled.
operation_ends(o) ==
  /\ OnlyReg
  /\ o \in operating
  /\ operating' = operating \ {o}
  /\ UNCHANGED <<projectCache, objects, collected, refs, lastGet>>

\* A collector that takes no account of the operations in flight.
collect_operating(o) ==
  /\ OnlyReg
  /\ o \in Live /\ o \notin refs
  /\ collected' = collected \cup {o}
  /\ UNCHANGED <<projectCache, objects, refs, lastGet, operating>>

\* The garbage collector reclaims a Controller nothing references strongly.
collect(o) ==
  /\ OnlyReg
  /\ o \in Live /\ o \notin refs /\ o \notin operating
  /\ collected' = collected \cup {o}
  /\ UNCHANGED <<projectCache, objects, refs, lastGet, operating>>

NextReg ==
  \/ \E id \in ProjectIds : get(id)
  \/ \E o \in ObjectIds : release(o)
  \/ \E o \in ObjectIds : collect(o)
  \/ \E o \in ObjectIds : operation_begins(o)
  \/ \E o \in ObjectIds : operation_ends(o)


----------------------------------------------------------------------------
(* Subprocess execution: doSpawn of execute-code                           *)

\* exit_code and r.exitCode when they are null or undefined.
NoCode == -1
ExitCodes == {0, 1}

Options == [timeout : {0, 1}, err_on_exit : BOOLEAN]

InitExec ==
  /\ opts \in Options
  /\ spawnPc = "idle"
  /\ child = [exitCode |-> NoCode, exited |-> FALSE, errored |-> FALSE]
  /\ stdout_is_done = FALSE
  /\ stderr_is_done = FALSE
  /\ exit_code = NoCode
  /\ killed = FALSE
  /\ callback_done = FALSE
  /\ ran_code = FALSE
  /\ timer = "none"
  /\ cbs = <<>>

\* What finish() hands to cb, given exit_code and ran_code.
completion(code, ran) ==
  IF opts.err_on_exit /\ code # 0
    THEN [err |-> "exited with nonzero code", exit_code |-> code]
  ELSE IF ~ran
    THEN [err |-> "was not able to run", exit_code |-> code]
  ELSE [err |-> "", exit_code |-> IF code = NoCode THEN 1 ELSE code]

\* A finish() without the callback_done test.
finishUnguarded(stdout_done, stderr_done, code, ran) ==
  IF ~killed /\ (~stdout_done \/ ~stderr_done \/ code = NoCode)
    THEN /\ exit_code' = code
         /\ UNCHANGED <<callback_done, cbs>>
  ELSE /\ callback_done' = TRUE
       /\ cbs' = Append(cbs, completion(code, ran))
       /\ exit_code' = completion(code, ran).exit_code

\* finish(), called by a handler that has just assigned the given values to
\* stdout_is_done, stderr_is_done, exit_code and ran_code.
finish(stdout_done, stderr_done, code, ran) ==
  IF ~killed /\ (~stdout_done \/ ~stderr_done \/ code = NoCode)
    THEN /\ exit_code' = code
         /\ UNCHANGED <<callback_done, cbs>>
  ELSE IF callback_done
    THEN /\ exit_code' = code
         /\ UNCHANGED <<callback_done, cbs>>
  ELSE /\ callback_done' = TRUE
       /\ cbs' = Append(cbs, completion(code, ran))
       /\ exit_code' = completion(code, ran).exit_code

\* doSpawn(opts, cb) up to its return: spawn throws, or gives a child without
\* streams, or the handlers are set up and, with a timeout, the timer.
doSpawn ==
  /\ OnlyExec
  /\ spawnPc = "idle"
  /\ \/ /\ spawnPc' = "returned"
        /\ \E message \in {"error", "error creating child process"} :
             cbs' = Append(cbs, [err |-> message, exit_code |-> NoCode])
        /\ UNCHANGED <<ran_code, timer>>
     \/ /\ spawnPc' = "spawned"
        /\ ran_code' = TRUE
        /\ timer' = IF opts.timeout # 0 THEN "armed" ELSE "none"
        /\ UNCHANGED cbs
  /\ UNCHANGED <<opts, child, stdout_is_done, stderr_is_done, exit_code, killed,
                 callback_done>>

\* r.stdout.on("end")
stdout_on_end ==
  /\ OnlyExec
  /\ spawnPc = "spawned" /\ ~stdout_is_done
  /\ stdout_is_done' = TRUE
  /\ finish(TRUE, stderr_is_done, exit_code, ran_code)
  /\ UNCHANGED <<opts, spawnPc, child, stderr_is_done, killed, ran_code, timer>>

\* r.stderr.on("end")
stderr_on_end ==
  /\ OnlyExec
  /\ spawnPc = "spawned" /\ ~stderr_is_done
  /\ stderr_is_done' = TRUE
  /\ finish(stdout_is_done, TRUE, exit_code, ran_code)
  /\ UNCHANGED <<opts, spawnPc, child, stdout_is_done, killed, ran_code, timer>>

\* r.on("exit"): the process ended with an exit code, or by a signal, in which
\* case code and r.exitCode are null.
r_on_exit ==
  /\ OnlyExec
  /\ spawnPc = "spawned" /\ ~child.exited
  /\ \E code \in ExitCodes \cup {NoCode} :
       /\ child' = [child EXCEPT !.exited = TRUE, !.exitCode = code]
       /\ finish(stdout_is_done, stderr_is_done, code, ran_code)
  /\ UNCHANGED <<opts, spawnPc, stdout_is_done, stderr_is_done, killed, ran_code, timer>>

\* r.on("error")
r_on_error ==
  /\ OnlyExec
  /\ spawnPc = "spawned" /\ ~child.errored
  /\ child' = [child EXCEPT !.errored = TRUE]
  /\ ran_code' = FALSE
  /\ finish(stdout_is_done, stderr_is_done,
            IF exit_code = NoCode THEN 1 ELSE exit_code, FALSE)
  /\ UNCHANGED <<opts, spawnPc, stdout_is_done, stderr_is_done, killed, timer>>

\* The timer fires: f().
setTimeout_f ==
  /\ OnlyExec
  /\ timer = "armed"
  /\ timer' = "fired"
  /\ IF child.exitCode = NoCode
       THEN /\ killed' = TRUE
            /\ IF ~callback_done
                 THEN /\ callback_done' = TRUE
                      /\ cbs' = Append(cbs, [err |-> "killed command", exit_code |-> NoCode])
                 ELSE UNCHANGED <<callback_done, cbs>>
       ELSE UNCHANGED <<killed, callback_done, cbs>>
  /\ UNCHANGED <<opts, spawnPc, child, stdout_is_done, stderr_is_done, exit_code, ran_code>>

NextExec ==
  \/ doSpawn
  \/ stdout_on_end
  \/ stderr_on_end
  \/ r_on_exit
  \/ r_on_error
  \/ setTimeout_f

----------------------------------------------------------------------------
(* Hub-project link: tcp-server.ts and handle-message.ts                   *)

\* Connections accepted, the latest clock value, jupyter handlers in flight.
MaxConns == 2
MaxTime == 1
MaxPending == 1

\* `secretToken.length < 16`
MinSecretLength == 16

Conns == 1..MaxConns

ValidToken == "0123456789abcdef"
ServerTokens == {"", "tooshort", ValidToken}
ClientSecrets == {"", "tooshort", "0123456789abcdeX", ValidToken}

\* JavaScript values of the fields of a message.
Undefined == [t |-> "undefined"]
Num(n) == [t |-> "number", n |-> n]
Str(x) == [t |-> "string", s |-> x]

\* `if (v)`
Truthy(v) ==
  CASE v.t = "number" -> v.n # 0
    [] v.t = "string" -> v.s # ""
    [] OTHER -> FALSE

\* `v != null`
NotNull(v) == v.t # "undefined"

\* Number(v) for the strings that spell a number (-1: NaN).
ToNumber(v) ==
  CASE v.t = "number" -> v.n
    [] v.t = "string" /\ v.s = "9" -> 9
    [] v.t = "string" /\ v.s = "15" -> 15
    [] v.t = "string" /\ v.s = "" -> 0
    [] OTHER -> -1

\* `v == n` for a number n: no type check, a string is converted.
LooseEquals(v, n) == v.t \in {"number", "string"} /\ ToNumber(v) = n

project_id == "project-uuid"

\* The dispatch table of handleMessage, and events outside it.
TableEvents ==
  {"heartbeat", "ping", "named_server_port", "project_exec", "jupyter_execute",
   "jupyter_kernels", "read_file_from_project", "write_file_to_project",
   "write_text_file_to_project", "print_to_pdf", "send_signal", "save_blob",
   "error", "hello"}
OtherEvents == {"no_such_event", "list_files"}

MesgIds == {Undefined, Str(""), Str("x")}
Pids == {Undefined, Num(0), Num(123)}
Signals == {Undefined, Num(2), Num(3), Num(9), Num(15), Str("9"), Str("15")}

\* The JSON messages a hub may send.
Messages ==
  [event : (TableEvents \cup OtherEvents) \ {"send_signal"}, id : MesgIds,
   pid : {Undefined}, signal : {Undefined}]
  \cup [event : {"send_signal"}, id : MesgIds, pid : Pids, signal : Signals]

\* The messages sent while connections come and go.
LinkMessages ==
  {m \in Messages :
     /\ m.event \in {"heartbeat", "ping", "jupyter_kernels", "no_such_event"}
     /\ m.id \in {Undefined, Str("x")}}

NoMesg == [event |-> "", id |-> Undefined, pid |-> Undefined, signal |-> Undefined]
NoLast == [by |-> "none", socket |-> 0, type |-> "", mesg |-> NoMesg, effects |-> <<>>]

NewSocket ==
  [state |-> "none", presented |-> FALSE, secret |-> "", heartbeat |-> -1, mesg |-> FALSE]

InitHub ==
  /\ secretToken \in ServerTokens
  /\ server = "new"
  /\ sock = [c \in Conns |-> NewSocket]
  /\ active_socket = 0
  /\ now = 0
  /\ last = NoLast
  /\ pending = {}

\* What handling a message does, in order.
write_mesg(m) == [op |-> "write_mesg", type |-> "json", mesg |-> m]
processKill(pid, signal) == [op |-> "processKill", pid |-> pid, signal |-> signal]
call(handler) == [op |-> "call", handler |-> handler]

\* init(): refuse a missing or short secret token, else listen.
\* A test that only refuses an undefined token.
tokenRejectedUndefinedOnly(token) == token = ""

\* `!secretToken || secretToken.length < 16`
tokenRejected(token) == token = "" \/ Len(token) < MinSecretLength

init ==
  /\ OnlyHub
  /\ server = "new"
  /\ server' = IF tokenRejected(secretToken) THEN "threw" ELSE "listening"
  /\ UNCHANGED <<secretToken, sock, active_socket, now, last, pending>>

\* init(): the server is listening; write the port file.
init_listening ==
  /\ OnlyHub
  /\ server = "listening"
  /\ server' = "ready"
  /\ UNCHANGED <<secretToken, sock, active_socket, now, last, pending>>

\* handleConnection(socket): a connection is accepted; `await unlockSocket`.
handleConnection(c) ==
  /\ OnlyHub
  /\ server \in {"listening", "ready"}
  /\ sock[c].state = "none"
  /\ IF c = 1 THEN TRUE ELSE sock[c - 1].state # "none"
  /\ sock' = [sock EXCEPT ![c].state = "locked"]
  /\ UNCHANGED <<secretToken, server, active_socket, now, last, pending>>

\* unlockSocket(socket, token): the client's secret is the server's token, which
\* is neither missing nor short.
unlockSocket(secret, token) ==
  /\ secret # ""
  /\ Len(secret) >= MinSecretLength
  /\ secret = token

\* handleConnection: unlockSocket resolved: give the socket an id and a
\* heartbeat, enableMessagingProtocol, listen for "mesg".
unlocked(s) == [s EXCEPT !.state = "open", !.heartbeat = now, !.mesg = TRUE]

\* A catch branch that logs and falls through to the code after it.
unlockFailedNoReturn(s) == unlocked(s)

\* handleConnection: unlockSocket threw: socket.destroy(...); return.
unlockFailed(s) == [s EXCEPT !.state = "destroyed"]

\* handleConnection: the client presented its secret and unlockSocket settled.
handleConnection_unlockSocket(c) ==
  /\ OnlyHub
  /\ sock[c].state = "locked"
  /\ \E secret \in ClientSecrets :
       LET s == [sock[c] EXCEPT !.presented = TRUE, !.secret = secret]
       IN sock' = [sock EXCEPT ![c] =
             IF unlockSocket(secret, secretToken) THEN unlocked(s) ELSE unlockFailed(s)]
  /\ UNCHANGED <<secretToken, server, active_socket, now, last, pending>>

\* client.handle_mesg(mesg, socket) claims the replies to the project's own
\* calls; a request from the hub is none of them.
handle_mesg(mesg) == FALSE

error_invalid_signal == <<"invalid pid or signal (must be 2,3,9)">>
error_not_implemented(event) ==
  <<"Project ", project_id, " does not implement handling mesg with event='", event, "'">>

\* A send_signal case that delivers whatever it is given.
send_signal_any(mesg) ==
  <<processKill(mesg.pid, mesg.signal), write_mesg([event |-> "signal_sent", id |-> mesg.id])>>

\* A send_signal case that delivers the signal and confirms nothing.
send_signal_no_confirm(mesg) ==
  IF Truthy(mesg.pid)
     /\ (LooseEquals(mesg.signal, 2) \/ LooseEquals(mesg.signal, 3)
           \/ LooseEquals(mesg.signal, 9))
    THEN <<processKill(mesg.pid, mesg.signal)>>
    ELSE IF Truthy(mesg.id)
           THEN <<write_mesg([event |-> "error", id |-> mesg.id,
                              error |-> error_invalid_signal])>>
           ELSE <<>>

\* A send_signal case whose error branch does not return.
send_signal_falls_through(mesg) ==
  (IF Truthy(mesg.pid)
      /\ (LooseEquals(mesg.signal, 2) \/ LooseEquals(mesg.signal, 3)
            \/ LooseEquals(mesg.signal, 9))
     THEN <<processKill(mesg.pid, mesg.signal)>>
     ELSE IF Truthy(mesg.id)
            THEN <<write_mesg([event |-> "error", id |-> mesg.id,
                               error |-> error_invalid_signal])>>
            ELSE <<>>)
  \o (IF NotNull(mesg.id)
        THEN <<write_mesg([event |-> "signal_sent", id |-> mesg.id])>>
        ELSE <<>>)

\* handleMessage, case "send_signal".
send_signal(mesg) ==
  IF Truthy(mesg.pid)
     /\ (LooseEquals(mesg.signal, 2) \/ LooseEquals(mesg.signal, 3)
           \/ LooseEquals(mesg.signal, 9))
    THEN <<processKill(mesg.pid, mesg.signal)>>
         \o (IF NotNull(mesg.id)
               THEN <<write_mesg([event |-> "signal_sent", id |-> mesg.id])>>
               ELSE <<>>)
    ELSE IF Truthy(mesg.id)
           THEN <<write_mesg([event |-> "error", id |-> mesg.id,
                              error |-> error_invalid_signal])>>
           ELSE <<>>

\* A default branch that drops every unknown message.
unknown_event_dropped(mesg) == <<>>

\* A default branch that answers whether or not the message has an id.
unknown_event_always_replies(mesg) ==
  <<write_mesg([event |-> "error", id |-> mesg.id,
                error |-> error_not_implemented(mesg.event)])>>

\* handleMessage, the default branch.
unknown_event(mesg) ==
  IF NotNull(mesg.id)
    THEN <<write_mesg([event |-> "error", id |-> mesg.id,
                       error |-> error_not_implemented(mesg.event)])>>
    ELSE <<>>

\* handleMessage(socket, mesg): what it does before its first await.
\* An "error" case that falls through to the default case.
error_event_falls_through(mesg) == unknown_event(mesg)

\* case "error": `winston.error(...); return;`
error_event(mesg) == <<>>

handleMessage(mesg) ==
  IF handle_mesg(mesg) THEN <<>>
  ELSE CASE mesg.event = "heartbeat" -> <<>>
    [] mesg.event = "ping" -> <<write_mesg([event |-> "pong", id |-> mesg.id])>>
    [] mesg.event = "named_server_port" -> <<call("handleNamedServer")>>
    [] mesg.event = "project_exec" -> <<call("exec_shell_code")>>
    [] mesg.event = "jupyter_execute" -> <<call("jupyterExecute")>>
    [] mesg.event = "jupyter_kernels" -> <<call("get_kernel_data")>>
    [] mesg.event = "read_file_from_project" -> <<call("read_file_from_project")>>
    [] mesg.event = "write_file_to_project" -> <<call("write_file_to_project")>>
    [] mesg.event = "write_text_file_to_project" -> <<call("writeTextFileToProject")>>
    [] mesg.event = "print_to_pdf" -> <<call("print_to_pdf")>>
    [] mesg.event = "send_signal" -> send_signal(mesg)
    [] mesg.event = "save_blob" -> <<call("handle_save_blob_message")>>
    [] mesg.event = "error" -> error_event(mesg)
    [] mesg.event = "hello" -> <<write_mesg([event |-> "version", id |-> Undefined])>>
    [] OTHER -> unknown_event(mesg)

\* The handlers handleMessage awaits.
\* Handlers that all settle before handleMessage hands control back.
AwaitedNever(mesg) == FALSE

Awaited(mesg) == ~handle_mesg(mesg) /\ mesg.event \in {"jupyter_execute", "jupyter_kernels"}

\* The "mesg" listener of handleConnection with a JSON message:
\* client.active_socket(socket); handleMessage(socket, mesg).
\* A heartbeat that refreshes the timestamp of every connection.
heartbeatEvery(c) == [x \in Conns |-> [sock[x] EXCEPT !.heartbeat = now]]

\* `socket.heartbeat = new Date();`
heartbeat(c) == [sock EXCEPT ![c].heartbeat = now]

mesg_json(c, m) ==
  /\ sock[c].state = "open" /\ sock[c].mesg
  /\ Awaited(m) => Cardinality(pending) < MaxPending
  /\ active_socket' = c
  /\ last' = [by |-> "mesg", socket |-> c, type |-> "json", mesg |-> m,
              effects |-> handleMessage(m)]
  /\ sock' = IF ~handle_mesg(m) /\ m.event = "heartbeat"
               THEN heartbeat(c) ELSE sock
  /\ pending' = IF Awaited(m) THEN pending \cup {[socket |-> c, mesg |-> m]} ELSE pending
  /\ UNCHANGED <<secretToken, server, now>>

\* A JSON message arrives while connections come and go.
mesg(c) ==
  /\ OnlyHub
  /\ \E m \in LinkMessages : mesg_json(c, m)

\* Any JSON message arrives on an authenticated connection.
mesg_any(c) ==
  /\ OnlyHub
  /\ \E m \in Messages : mesg_json(c, m)

\* The "mesg" listener with a message that is not JSON: only
\* client.active_socket(socket).
mesg_blob(c) ==
  /\ OnlyHub
  /\ sock[c].state = "open" /\ sock[c].mesg
  /\ active_socket' = c
  /\ last' = [by |-> "mesg", socket |-> c, type |-> "blob", mesg |-> NoMesg,
              effects |-> <<>>]
  /\ UNCHANGED <<secretToken, server, sock, now, pending>>

\* handleMessage resumes after `await jupyterExecute(...)` or
\* `await get_kernel_data()`: the kernels are sent, or the catch branch sends
\* the error. (A socket closed meanwhile takes no more writes.)
handleMessage_settled ==
  /\ OnlyHub
  /\ \E h \in pending, ok \in BOOLEAN :
       /\ pending' = pending \ {h}
       /\ last' = [by |-> "settled", socket |-> h.socket, type |-> "json",
                   mesg |-> h.mesg,
                   effects |->
                     IF sock[h.socket].state # "open" THEN <<>>
                     ELSE IF ~ok
                       THEN <<write_mesg([event |-> "error", id |-> h.mesg.id,
                                          error |-> <<"err">>])>>
                     ELSE IF h.mesg.event = "jupyter_kernels"
                       THEN <<write_mesg([event |-> "jupyter_kernels", id |-> h.mesg.id])>>
                     ELSE <<>>]
  /\ UNCHANGED <<secretToken, server, sock, active_socket, now>>

\* The peer closes its connection.
socket_close(c) ==
  /\ OnlyHub
  /\ sock[c].state \in {"locked", "open"}
  /\ sock' = [sock EXCEPT ![c].state = "closed", ![c].mesg = FALSE]
  /\ UNCHANGED <<secretToken, server, active_socket, now, last, pending>>

\* Time passes.
Tick ==
  /\ OnlyHub
  /\ now < MaxTime
  /\ now' = now + 1
  /\ UNCHANGED <<secretToken, server, sock, active_socket, last, pending>>

NextHub ==
  \/ init
  \/ init_listening
  \/ \E c \in Conns :
       \/ handleConnection(c)
       \/ handleConnection_unlockSocket(c)
       \/ mesg(c)
       \/ mesg_blob(c)
       \/ socket_close(c)
  \/ handleMessage_settled
  \/ Tick

\* One hub connected and authenticated, the server up.
InitDispatch ==
  /\ secretToken = ValidToken
  /\ server = "ready"
  /\ now = 0
  /\ sock = [c \in Conns |->
       IF c = 1 THEN unlocked([NewSocket EXCEPT !.presented = TRUE, !.secret = ValidToken])
       ELSE NewSocket]
  /\ active_socket = 0
  /\ last = NoLast
  /\ pending = {}

NextDispatch ==
  \/ \E c \in Conns : mesg_any(c)
  \/ handleMessage_settled

\* The parts a specification does not exercise stay as they start.
CtlAtRest == InitCtl /\ ~running /\ dbState = "opened"
HubAtRest == InitHub /\ secretToken = ValidToken
WaitAtRest == InitWait /\ maxTime = MAX_START_TIME_MS /\ trueAt = 0
QuotaAtRest == InitQuota /\ settings = DefaultSettings
ExecAtRest == InitExec /\ opts = [timeout |-> 0, err_on_exit |-> FALSE]

\* The project controller under concurrent start(), stop() and restart() calls.
Init == InitCtl /\ InitReg /\ HubAtRest /\ WaitAtRest /\ QuotaAtRest /\ ExecAtRest
Spec == Init /\ [][NextCtl]_vars

\* What the event loop is bound to do: every awaited promise of a call in
\* flight settles, every write handed to the database lands and a launched
\* daemon comes up or fails. Nothing obliges a caller to make a call, nor a
\* process to exit.
Resumes ==
  \/ \E p \in Calls :
       \/ start_isProjectRunning(p)
       \/ start_preflight(p)
       \/ start_launchProjectDaemon(p)
       \/ start_until(p)
       \/ start_status(p)
       \/ finally_getState(p)
       \/ stop_isProjectRunning(p)
       \/ stop_getProjectPID(p)
       \/ stop_until(p)
  \/ DbWrite
  \/ DaemonUp

SpecStop == Init /\ [][NextCtl]_vars /\ WF_vars(Resumes)

\* The same with state() and address() calls.
InitAddress == InitCtl /\ InitReg /\ HubAtRest /\ WaitAtRest /\ QuotaAtRest /\ ExecAtRest
SpecAddress == InitAddress /\ [][NextAddress]_vars

\* The registry under get-or-create calls and garbage collection.
InitRegistry == CtlAtRest /\ InitReg /\ HubAtRest /\ WaitAtRest /\ QuotaAtRest /\ ExecAtRest
SpecRegistry == InitRegistry /\ [][NextReg]_vars

\* The hub server: connections, handshakes and the messages of LinkMessages.
InitLink == CtlAtRest /\ InitReg /\ InitHub /\ WaitAtRest /\ QuotaAtRest /\ ExecAtRest
SpecHub == InitLink /\ [][NextHub]_vars

\* The dispatcher: every message of Messages on an authenticated connection.
InitAuthenticated == CtlAtRest /\ InitReg /\ InitDispatch /\ WaitAtRest /\ QuotaAtRest /\ ExecAtRest
SpecDispatch == InitAuthenticated /\ [][NextDispatch]_vars

\* One call of wait: the event loop runs every timer and resumes every await.
InitPolling == CtlAtRest /\ InitReg /\ HubAtRest /\ InitWait /\ QuotaAtRest /\ ExecAtRest
SpecWait == InitPolling /\ [][NextWait]_vars /\ WF_vars(NextWait)

\* Quota reconciliation, with the restarts it begins running in the background.
InitSetAllQuotas ==
  InitReconcile /\ InitReg /\ HubAtRest /\ WaitAtRest /\ InitQuota /\ ExecAtRest
SpecQuota == InitSetAllQuotas /\ [][NextQuota]_vars

\* setAllQuotas() on a Controller whose callers also invoke start().
NextQuotaStart == NextQuota \/ \E p \in Calls : start(p)
SpecQuotaStart == InitSetAllQuotas /\ [][NextQuotaStart]_vars

\* One doSpawn under every order of the events of its child and of its timer.
InitExecute ==
  CtlAtRest /\ InitReg /\ HubAtRest /\ WaitAtRest /\ QuotaAtRest /\ InitExec
SpecExec == InitExecute /\ [][NextExec]_vars

----------------------------------------------------------------------------
(* Properties of the project controller                                    *)

\* The call is inside the transition section of its start() or stop(): it has
\* set the marker and has not reached its finally block.
InTransitionSection(p) == calls[p].setMarker /\ ~calls[p].cleared

\* The call has launched the project daemon and is polling for it to come up.
InBringUp(p) ==
  /\ calls[p].cur = "start" /\ calls[p].launched
  /\ calls[p].pc \in {"start_until", "start_status"}

\* C1: of two start() calls made concurrently on one Controller while the
\* sandbox is not running, only one invokes the bring-up: no two start() calls
\* have both launched the project daemon and are both polling for it.
C1_OneBringUp ==
  \A p, q \in Calls : p # q => ~(InBringUp(p) /\ InBringUp(q))

\* C2: at most one start() or stop() call is inside its transition section at
\* any time, and the marker is set while one is.
C2_OneTransition ==
  /\ \A p, q \in Calls :
       p # q => ~(InTransitionSection(p) /\ InTransitionSection(q))
  /\ \A p \in Calls : InTransitionSection(p) => stateChanging # Null

\* C10: a start() or stop() that set the marker ends, normally or by throwing,
\* only in the step in which the getState of its finally block answers (the
\* re-probe), and it cleared the marker before issuing that probe.
C10_FinallyClearsAndReprobes ==
  [][\A p \in Calls :
       (calls[p].setMarker /\ ~calls'[p].setMarker)
         => (calls[p].cleared /\ calls[p].pc = "finally_getState")]_vars

\* A start() or stop() that threw after setting the marker is in its finally
\* block: the marker is cleared and the re-probe is in flight.
C10_Witness ==
  \E p \in Calls :
    /\ calls[p].pc = "finally_getState" /\ calls[p].err
    /\ calls[p].setMarker /\ calls[p].cleared
    /\ stateChanging = Null

\* C11: when a start() or stop() that re-probed the state in its finally block
\* hands control back (returns or throws), the write of the re-probed state
\* has completed: the durable record holds it and no state write is pending.
C11_PersistedOnReturn ==
  [][\A p \in Calls :
       (calls[p].pc = "finally_getState" /\ calls'[p].pc \in {"returned", "threw"})
         => (dbWrites' = {} /\ dbState' = getState)]_vars

\* The call is a start() that invoked launchProjectDaemon.
BroughtUp(r) == r.cur = "start" /\ r.launched

\* C12: a start() that invoked the bring-up probes the status only after it
\* found the backend running, enters its finally block without an exception
\* only from a probe whose status exposes both the secret token and the
\* hub-server port, and returns normally only then; otherwise it throws.
C12_ReturnsOnlyWhenReady ==
  [][\A p \in Calls :
       /\ (BroughtUp(calls[p]) /\ calls[p].pc = "start_until"
             /\ calls'[p].pc = "start_status") => running
       /\ (BroughtUp(calls'[p]) /\ calls'[p].pc = "finally_getState"
             /\ calls[p].pc # "finally_getState" /\ ~calls'[p].err)
            => (/\ calls[p].pc = "start_status"
                /\ status.secret_token /\ status.hub_server_port)
       /\ (BroughtUp(calls[p]) /\ calls[p].pc = "finally_getState"
             /\ calls'[p].pc # "finally_getState")
            => calls'[p].pc = (IF calls[p].err THEN "threw" ELSE "returned")]_vars

\* A start() whose bring-up became ready is in its finally block, about to
\* return normally.
C12_Witness ==
  \E p \in Calls :
    /\ calls[p].op = "start" /\ BroughtUp(calls[p])
    /\ calls[p].pc = "finally_getState" /\ ~calls[p].err
    /\ running /\ status.secret_token /\ status.hub_server_port

----------------------------------------------------------------------------
(* Properties of the registry                                              *)

\* C3: at most one live Controller exists per project id, the live one is the
\* registered one, and get(id) constructs one only when none is alive (what
\* it returns is the live Controller of that id).
C3_OneLiveController ==
  /\ \A id \in ProjectIds : Cardinality({o \in Live : objects[o] = id}) <= 1
  /\ \A o \in Live : projectCache[objects[o]] = o
  /\ lastGet.object \in Live => objects[lastGet.object] = lastGet.project_id

\* A project id whose first Controller was reclaimed and whose second one was
\* handed out again by a later get.
C3_Witness ==
  \E id \in ProjectIds :
    /\ Cardinality({o \in ObjectIds : objects[o] = id}) >= 2
    /\ lastGet.project_id = id /\ ~lastGet.constructed
    /\ lastGet.object \in Live /\ lastGet.object \in refs

----------------------------------------------------------------------------
(* Properties of the hub link and of the dispatcher                        *)

\* The connection's handshake succeeded.
Unlocked(c) == sock[c].presented /\ unlockSocket(sock[c].secret, secretToken)

\* C4: a connection whose handshake failed or has not completed has no "mesg"
\* listener, is not the active socket, had no message handled (and so no
\* reply written) and has no handler in flight; once its handshake failed it
\* is destroyed.
C4_NoDispatchBeforeUnlock ==
  \A c \in Conns :
    ~Unlocked(c) =>
      /\ ~sock[c].mesg
      /\ active_socket # c
      /\ last.socket # c
      /\ \A h \in pending : h.socket # c
      /\ sock[c].presented => sock[c].state = "destroyed"

\* One connection failed its handshake and is destroyed while another one,
\* authenticated, has had a message handled.
C4_Witness ==
  \E c, c2 \in Conns :
    /\ sock[c].presented /\ ~Unlocked(c) /\ sock[c].state = "destroyed"
    /\ Unlocked(c2) /\ sock[c2].state = "open"
    /\ last.socket = c2 /\ active_socket = c2

AllowedSignals == {2, 3, 9}

IsKill(e) == e.op = "processKill"
IsReply(e, event) == e.op = "write_mesg" /\ e.mesg.event = event

\* The latest event is this JSON message handed to handleMessage.
Handled(event) == last.by = "mesg" /\ last.type = "json" /\ last.mesg.event = event

\* C5: processKill is invoked only for a send_signal message, with that
\* message's pid and signal, the signal being 2, 3 or 9 and the pid given.
C5_OnlyAllowedSignals ==
  \A i \in DOMAIN last.effects :
    IsKill(last.effects[i]) =>
      /\ Handled("send_signal")
      /\ last.effects[i].pid = last.mesg.pid
      /\ last.effects[i].signal = last.mesg.signal
      /\ ToNumber(last.mesg.signal) \in AllowedSignals
      /\ Truthy(last.mesg.pid)

\* A signal 3 was delivered to pid 123.
C5_Witness ==
  /\ Handled("send_signal")
  /\ \E i \in DOMAIN last.effects :
       /\ IsKill(last.effects[i])
       /\ last.effects[i].pid = Num(123) /\ last.effects[i].signal = Num(3)

\* What a valid send_signal request with an id does.
KillThenConfirm ==
  last.effects =
    <<processKill(last.mesg.pid, last.mesg.signal),
      write_mesg([event |-> "signal_sent", id |-> last.mesg.id])>>

\* C6 as stated: a send_signal message with a pid, a signal in {2, 3, 9} and an
\* id results in one kill with that pid and signal, then one "signal_sent"
\* reply with that id, and nothing else.
C6_KillThenConfirm ==
  (/\ Handled("send_signal")
   /\ NotNull(last.mesg.pid)
   /\ ToNumber(last.mesg.signal) \in AllowedSignals
   /\ NotNull(last.mesg.id)) => KillThenConfirm

\* C6 amended: the same for a pid other than 0.
C6_KillThenConfirmNonZeroPid ==
  (/\ Handled("send_signal")
   /\ Truthy(last.mesg.pid)
   /\ ToNumber(last.mesg.signal) \in AllowedSignals
   /\ NotNull(last.mesg.id)) => KillThenConfirm

\* {event: "send_signal", pid: 123, signal: 9, id: "x"} was handled.
C6_Witness ==
  /\ Handled("send_signal")
  /\ last.mesg.pid = Num(123) /\ last.mesg.signal = Num(9) /\ last.mesg.id = Str("x")
  /\ KillThenConfirm

\* A send_signal message the allow-list or the missing pid rules out.
InvalidSignalRequest ==
  /\ Handled("send_signal")
  /\ (ToNumber(last.mesg.signal) \notin AllowedSignals \/ ~NotNull(last.mesg.pid))

InvalidSignalReply ==
  <<write_mesg([event |-> "error", id |-> last.mesg.id,
                error |-> <<"invalid pid or signal (must be 2,3,9)">>])>>

\* C7 as stated: every send_signal message whose signal is not in {2, 3, 9} or
\* whose pid is missing yields the error reply citing the constraint, and
\* nothing else.
C7_InvalidSignalErrorReply == InvalidSignalRequest => last.effects = InvalidSignalReply

\* C7 amended: such a message delivers no signal and sends no "signal_sent"; it
\* yields exactly the error reply when its id is non-empty and nothing at all
\* when it has no id or an empty one.
C7_InvalidSignalErrorReplyWithId ==
  InvalidSignalRequest =>
    last.effects = (IF Truthy(last.mesg.id) THEN InvalidSignalReply ELSE <<>>)

\* {event: "send_signal", pid: 123, signal: 15, id: "x"} got the error reply.
C7_Witness ==
  /\ InvalidSignalRequest
  /\ last.mesg.pid = Num(123) /\ last.mesg.signal = Num(15) /\ last.mesg.id = Str("x")
  /\ last.effects = InvalidSignalReply

\* C8: a message whose event is not in the dispatch table and that carries an
\* id produces exactly one effect: an error reply with that id whose text
\* names the project id and the event. No handler is invoked.
C8_UnknownEventWithId ==
  (/\ last.by = "mesg" /\ last.type = "json"
   /\ last.mesg.event \notin TableEvents
   /\ NotNull(last.mesg.id)) =>
     /\ Len(last.effects) = 1
     /\ IsReply(last.effects[1], "error")
     /\ last.effects[1].mesg.id = last.mesg.id
     /\ \E i \in DOMAIN last.effects[1].mesg.error :
          last.effects[1].mesg.error[i] = project_id
     /\ \E i \in DOMAIN last.effects[1].mesg.error :
          last.effects[1].mesg.error[i] = last.mesg.event

\* {event: "list_files", id: "x"} was answered with an error.
C8_Witness ==
  /\ last.by = "mesg" /\ last.mesg.event = "list_files" /\ last.mesg.id = Str("x")
  /\ Len(last.effects) = 1 /\ IsReply(last.effects[1], "error")

\* The step handles, on connection c, a message with an unknown event and no id.
DropsUnknown(c) ==
  /\ last' # last
  /\ last'.by = "mesg" /\ last'.type = "json" /\ last'.socket = c
  /\ last'.mesg.event \notin TableEvents
  /\ last'.mesg.id = Undefined

\* C9: handling a message with an unknown event and no id writes nothing,
\* starts nothing, and leaves the socket as it was: open, with its "mesg"
\* listener.
C9_UnknownEventWithoutId ==
  [][\A c \in Conns :
       DropsUnknown(c) =>
         /\ last'.effects = <<>>
         /\ pending' = pending
         /\ sock' = sock
         /\ sock'[c].state = "open" /\ sock'[c].mesg]_vars

\* An unknown event without an id was dropped and the connection is open.
C9_Witness ==
  /\ last.by = "mesg" /\ last.mesg.event = "no_such_event" /\ last.mesg.id = Undefined
  /\ last.effects = <<>>
  /\ sock[last.socket].state = "open" /\ sock[last.socket].mesg

----------------------------------------------------------------------------
(* Properties of wait                                                      *)

\* C13: when until() never answers true and every probe is instantaneous,
\* wait has thrown by the time the ceiling of start() (20 000 ms) or of stop()
\* (10 000 ms) has elapsed, give or take the first polling interval: the call
\* is not pending beyond its ceiling.
C13_ThrowsAtCeiling ==
  (/\ waitPc = "threw" /\ instantaneous
   /\ maxTime \in {MAX_START_TIME_MS, MAX_STOP_TIME_MS})
    => elapsed <= maxTime + InitialDelay

\* The elapsed times of the first probes: 0, 250, 250+300, 250+300+360, ...
ExpectedProbes == <<0, 250, 550, 910, 1342>>

\* C14: with instantaneous probes the n-th call of until() is made at elapsed
\* time 0, 250, 550, 910, ...; wait returns at the first probe that answers
\* true, with no further probe and no further sleep (at 550 ms when that is
\* the 3rd probe).
C14_ProbeSchedule ==
  /\ (waitPc = "until" /\ instantaneous /\ probes <= Len(ExpectedProbes))
       => elapsed = ExpectedProbes[probes]
  /\ waitPc = "returned" => probes = trueAt
  /\ (waitPc = "returned" /\ instantaneous /\ trueAt <= Len(ExpectedProbes))
       => elapsed = ExpectedProbes[trueAt]

\* wait({until, maxTime: 1000}) with until first true at the 3rd probe
\* returned at 550 ms.
C14_Witness ==
  /\ waitPc = "returned" /\ instantaneous
  /\ maxTime = 1000 /\ trueAt = 3 /\ probes = 3 /\ elapsed = 550

\* C15: wait throws only once the elapsed time exceeds maxTime, calls until()
\* only while it does not, never returns normally when until() is false at
\* every probe, and in that case does throw.
C15_ThrowsOnlyAfterMaxTime ==
  /\ [](waitPc = "threw" => elapsed > maxTime)
  /\ [](waitPc = "until" => elapsed <= maxTime)
  /\ [](trueAt = 0 => waitPc # "returned")
  /\ (trueAt = 0 ~> waitPc = "threw")

\* wait({until, maxTime: 1000}) with until never true threw after 1000 ms.
C15_Witness ==
  /\ waitPc = "threw" /\ trueAt = 0
  /\ maxTime = 1000 /\ elapsed > 1000 /\ probes = 4

----------------------------------------------------------------------------
(* Properties of quota reconciliation                                      *)

\* The step is the comparison of setAllQuotas: the site settings arrived.
Compares == sq.pc = "getQuotaSiteSettings" /\ sq' # sq

\* The step touches neither the Controller, nor the backend, nor the durable
\* record, and begins no background restart.
NothingDone == ctlVars' = ctlVars /\ background' = background /\ settings' = settings

\* C16: when the freshly computed quota equals the stored run_quota,
\* setAllQuotas returns without beginning a restart and without touching the
\* Controller, the backend or the durable record.
C16_EqualQuotaNoRestart ==
  [][(Compares /\ sq.x.run_quota = quota(sq.x.settings))
       => (sq'.pc = "returned" /\ sq'.restarts = 0 /\ NothingDone)]_vars

\* setAllQuotas found an active project with unchanged quotas and returned.
C16_Witness ==
  /\ sq.pc = "returned" /\ sq.x.state \in Active
  /\ sq.x.run_quota = quota(sq.x.settings)
  /\ sq.restarts = 0
  /\ \A p \in Calls : calls[p].pc = "idle"

C19_InactiveNothingDone ==
  [][(/\ sq.pc = "get_project" /\ sq'.pc \notin {"get_project", "threw"}
      /\ dbState \notin Active)
       => (sq'.pc = "returned" /\ sq'.restarts = 0 /\ NothingDone)]_vars

\* setAllQuotas found a project without a state whose quotas had changed, and
\* returned without a restart.
C19_Witness ==
  /\ sq.pc = "returned" /\ sq.x.state = Null
  /\ sq.x.run_quota # quota(sq.x.settings)
  /\ sq.restarts = 0
  /\ \A p \in Calls : calls[p].pc = "idle"

\* The two records differ in idle_timeout and in nothing else.
OnlyIdleTimeoutDiffers(a, b) ==
  /\ a # NoQuota
  /\ a.memory_limit = b.memory_limit
  /\ a.always_running = b.always_running
  /\ a.idle_timeout # b.idle_timeout

\* C20: when the stored run_quota and the computed quota differ in
\* idle_timeout only, setAllQuotas begins no restart.
C20_IdleTimeoutNoRestart ==
  [][(Compares /\ OnlyIdleTimeoutDiffers(sq.x.run_quota, quota(sq.x.settings)))
       => (sq'.restarts = 0 /\ calls' = calls)]_vars

----------------------------------------------------------------------------
(* Properties of state(), address() and of single calls                    *)

\* C21: state() invoked while the marker is set returns the marker (starting
\* or stopping) at once, with no probe and no write to the durable record;
\* invoked with no marker it awaits the probe, and when the probe answers it
\* issues the write of the observed state and returns that state.
C21_StateMarkerOrProbe ==
  [][\A p \in Calls :
       /\ (calls[p].pc = "idle" /\ calls'[p].op = "state")
            => IF stateChanging # Null
                 THEN /\ calls'[p].pc = "returned"
                      /\ calls'[p].ret = stateChanging
                      /\ calls'[p].ret \in {"starting", "stopping"}
                      /\ dbState' = dbState /\ dbWrites' = dbWrites
                 ELSE calls'[p].pc = "state_getState"
       /\ (calls[p].pc = "state_getState" /\ calls'[p].pc # "state_getState")
            => /\ calls'[p].pc = "returned"
               /\ calls'[p].ret = (IF running THEN "running" ELSE "opened")
               /\ calls'[p].ret \in dbWrites']_vars

\* state() answered "stopping" while a stop() held the marker.
C21_Witness ==
  \E p, q \in Calls :
    /\ calls[p].op = "state" /\ calls[p].pc = "returned" /\ calls[p].ret = "stopping"
    /\ calls[q].cur = "stop" /\ calls[q].setMarker /\ ~calls[q].cleared

\* C22: when the probe of start() reports the backend running, start()
\* persists state "running" and returns: the marker is not set, no pre-flight
\* step runs, the stored quota is not recomputed and nothing is launched.
C22_AlreadyRunning ==
  [][\A p \in Calls :
       (calls[p].pc = "start_isProjectRunning" /\ calls'[p] # calls[p] /\ running)
         => /\ dbState' = "running"
            /\ calls'[p].pc = "returned"
            /\ ~calls'[p].setMarker /\ ~calls'[p].launched
            /\ stateChanging' = stateChanging
            /\ run_quota' = run_quota
            /\ daemonPending' = daemonPending]_vars

\* A start() found the backend running and returned; nothing is in transition.
C22_Witness ==
  \E p \in Calls :
    /\ calls[p].op = "start" /\ calls[p].pc = "returned"
    /\ running /\ dbState = "running" /\ stateChanging = Null
    /\ ~daemonPending
    /\ \A q \in Calls \ {p} : calls[q].pc = "idle"

\* The step invokes start() or stop() (op) as call p.
Invokes(p, op) == calls[p].pc = "idle" /\ calls'[p].op = op

\* C23: a start() or a stop() invoked while the marker is set returns at
\* once: no probe, no write, no launch, the marker untouched; and a call that
\* has returned does nothing more.
C23_DroppedNotQueued ==
  [][\A p \in Calls :
       /\ ((Invokes(p, "start") \/ Invokes(p, "stop")) /\ stateChanging # Null)
            => /\ calls'[p].pc = "returned"
               /\ stateChanging' = stateChanging
               /\ <<running, daemonPending, status>>' = <<running, daemonPending, status>>
               /\ <<dbState, dbStatus, dbWrites, run_quota>>'
                    = <<dbState, dbStatus, dbWrites, run_quota>>
       /\ calls[p].pc = "returned" => calls'[p] = calls[p]]_vars

\* A start() was dropped while a stop() held the marker.
C23_Witness ==
  \E p, q \in Calls :
    /\ calls[p].op = "start" /\ calls[p].pc = "returned"
    /\ calls[q].op = "stop" /\ calls[q].setMarker /\ ~calls[q].cleared
    /\ stateChanging = "stopping"
    /\ ~daemonPending /\ running

\* C24: restart() begins with stop(); it goes on to start() only in the step
\* in which its stop() returns without an exception; a stop() that throws
\* ends the restart() with that exception.
C24_StopThenStart ==
  [][\A p \in Calls :
       /\ Invokes(p, "restart")
            => (calls'[p].cur = "stop" \/ (stateChanging # Null /\ calls'[p].pc = "returned"))
       /\ (calls[p].op = "restart" /\ calls[p].cur # "start" /\ calls'[p].cur = "start")
            => (calls[p].cur = "stop" /\ ~calls[p].err)
       /\ (calls[p].op = "restart" /\ calls[p].cur = "stop" /\ calls[p].err
             /\ calls'[p] # calls[p])
            => calls'[p].pc = "threw"]_vars

\* The stop() of a restart() timed out: the restart() threw, the backend is
\* still running and no start() was made.
C24_Witness ==
  \E p \in Calls :
    /\ calls[p].op = "restart" /\ calls[p].pc = "threw"
    /\ running /\ ~daemonPending
    /\ \A q \in Calls \ {p} : calls[q].pc = "idle"

\* The call is an address() that returned an address.
Addressed(r) == r.op = "address" /\ r.pc = "returned"

\* C25: address() probes the status only once its start() has returned
\* normally, throws for a missing port before it looks at the token, for a
\* missing token before it probes the state, and returns only from the state
\* probe, with a port, a token and a host; an exception of start() ends it.
C25_AddressComplete ==
  [][\A p \in Calls :
       /\ (calls'[p].pc = "address_status" /\ calls[p].pc # "address_status")
            => /\ calls'[p].op = "address"
               /\ calls[p].pc = "idle" \/ (calls[p].cur = "start" /\ ~calls[p].err)
               /\ calls'[p].read = NoStatus /\ ~calls'[p].ip
       /\ (calls[p].pc = "address_status" /\ calls'[p] # calls[p])
            => /\ ~status.hub_server_port
                    => (calls'[p].pc = "threw"
                        /\ calls'[p].error = "unable to determine project port")
               /\ (status.hub_server_port /\ ~status.secret_token)
                    => (calls'[p].pc = "threw"
                        /\ calls'[p].error = "unable to determine secret_token")
               /\ calls'[p].pc \in {"threw", "address_getState"}
       /\ (Addressed(calls'[p]) /\ ~Addressed(calls[p]))
            => /\ calls[p].pc = "address_getState"
               /\ calls'[p].read.hub_server_port /\ calls'[p].read.secret_token
               /\ calls'[p].ip
       /\ (calls[p].op = "address" /\ calls[p].cur = "start" /\ calls[p].err
             /\ calls'[p] # calls[p])
            => calls'[p].pc = "threw"]_vars

\* address() returned host, port and secret token of a running backend.
C25_Witness ==
  \E p \in Calls :
    /\ Addressed(calls[p]) /\ calls[p].ip
    /\ calls[p].read.hub_server_port /\ calls[p].read.secret_token
    /\ running /\ stateChanging = Null

\* C26: whenever address() returns an address, the backend was running at the
\* status probe and at the state probe, and no stop() is tearing it down
\* (holds the marker) when address() returns.
C26_AddressOfLiveSandbox ==
  [][\A p \in Calls :
       (Addressed(calls'[p]) /\ ~Addressed(calls[p]))
         => (calls'[p].live /\ stateChanging # "stopping")]_vars

\* The step handles a heartbeat message that arrived on connection c.
HandlesHeartbeat(c) ==
  /\ last'.by = "mesg" /\ last'.type = "json" /\ last'.socket = c
  /\ last'.mesg.event = "heartbeat"
  /\ last' # last \/ active_socket' # active_socket
       \/ sock'[c].heartbeat # sock[c].heartbeat

\* C27: a heartbeat message on an unlocked connection sets that connection's
\* heartbeat timestamp to the current time, which is not earlier than the
\* timestamp it had; it writes no reply, calls no handler, starts nothing
\* that is awaited, and changes nothing of any other connection.
C27_HeartbeatOnlyRefreshes ==
  [][\A c \in Conns :
       HandlesHeartbeat(c) =>
         /\ Unlocked(c) /\ sock[c].state = "open"
         /\ last'.effects = <<>>
         /\ pending' = pending
         /\ sock'[c] = [sock[c] EXCEPT !.heartbeat = now]
         /\ sock'[c].heartbeat >= sock[c].heartbeat
         /\ \A c2 \in Conns \ {c} : sock'[c2] = sock[c2]]_vars

\* A heartbeat refreshed one connection while another open connection keeps
\* its older timestamp.
C27_Witness ==
  \E c, c2 \in Conns :
    /\ Handled("heartbeat") /\ last.socket = c /\ last.effects = <<>>
    /\ sock[c].state = "open" /\ sock[c].heartbeat = now
    /\ sock[c2].state = "open" /\ sock[c2].heartbeat < now

\* The steps of start() up to the bring-up, and of stop() up to the signal.
BeforeBringUp ==
  {"start_isProjectRunning", "start_siteLicenseHook", "start_setRunQuota",
   "start_setup", "start_launchProjectDaemon"}
BeforeSignal == {"stop_isProjectRunning", "stop_getProjectPID"}

\* C28: a start() that has invoked the bring-up never comes back to a step
\* before it, a stop() that has sent the signal never comes back to a step
\* before it; a step that fails (or times out) goes to the finally block
\* launching nothing, the call then ends by throwing, and a call that threw
\* does nothing more.
C28_NoRetry ==
  [][\A p \in Calls :
       /\ calls[p].launched => calls'[p].pc \notin BeforeBringUp
       /\ calls[p].signalled => calls'[p].pc \notin BeforeSignal
       /\ (calls'[p].err /\ ~calls[p].err)
            => /\ calls'[p].pc = "finally_getState"
               /\ daemonPending' = daemonPending
       /\ (calls[p].err /\ calls'[p] # calls[p]) => calls'[p].pc = "threw"
       /\ calls[p].pc = "threw" => calls'[p] = calls[p]]_vars

\* The wait of a start() timed out after its one bring-up: the call is in its
\* finally block with the exception pending, the backend not running.
C28_Witness ==
  \E p \in Calls :
    /\ calls[p].op = "start" /\ calls[p].launched /\ calls[p].err
    /\ calls[p].pc = "finally_getState"
    /\ ~running /\ ~daemonPending /\ stateChanging = Null

\* The states the operations may persist.
Targets == {"opened", "starting", "running", "stopping"}

\* C29: the marker is undefined, starting or stopping; starting becomes the
\* marker and the persisted state only in the step in which the probe of a
\* start() reports not-running, stopping only in the step in which the probe
\* of a stop() reports running; every state persisted or handed to the
\* database is opened, starting, running or stopping, never archived.
C29_TransitionalStates ==
  [][/\ stateChanging' \in {Null, "starting", "stopping"}
     /\ dbState' # dbState => (dbState' \in Targets /\ dbState' # "archived")
     /\ dbWrites' \subseteq {"opened", "running"}
     /\ \A t \in {"starting", "stopping"} :
          ((dbState' = t /\ dbState # t) \/ (stateChanging' = t /\ stateChanging # t))
            => /\ dbState' = t /\ stateChanging' = t
               /\ running = (t = "stopping")
               /\ \E p \in Calls :
                    /\ calls[p].pc = (IF t = "starting" THEN "start_isProjectRunning"
                                                        ELSE "stop_isProjectRunning")
                    /\ calls'[p].setMarker /\ ~calls[p].setMarker]_vars

\* A restart() persisted stopping on a running backend and later starting
\* once it had stopped.
C29_Witness ==
  \E p \in Calls :
    /\ calls[p].op = "restart" /\ calls[p].cur = "start"
    /\ stateChanging = "starting" /\ dbState = "starting" /\ ~running

\* C30: with a secret token that is undefined or shorter than 16 characters
\* the server is never created or listening, no connection is ever accepted
\* and the port file is never written: init() threw; with any token the port
\* file is written only in a step that finds the server listening.
C30_NoListenerWithoutToken ==
  [][/\ (secretToken = "" \/ Len(secretToken) < 16)
          => /\ server' \in {"new", "threw"}
             /\ \A c \in Conns : sock'[c].state = "none"
     /\ (server' = "ready" /\ server # "ready") => server = "listening"
     /\ (server' = "listening" /\ server # "listening")
          => (server = "new" /\ Len(secretToken) >= 16)]_vars

\* init() threw on a token that is defined but too short.
C30_Witness ==
  /\ server = "threw"
  /\ secretToken # "" /\ Len(secretToken) < 16
  /\ \A c \in Conns : sock[c].state = "none"

----------------------------------------------------------------------------
(* Properties of stop(), of the pre-flight and of restart()                 *)

\* C31: when the probe of a stop() reports the backend not running, stop()
\* persists opened and ends: no marker, no signal. When it reports running,
\* stop() sets the marker and persists stopping; whatever getProjectPID
\* answers, stop() goes on to its wait, having signalled at most once; and a
\* stop() that set the marker leaves its wait without an exception only in a
\* step whose probe reports the backend not running.
C31_StopTearsDown ==
  [][\A p \in Calls :
       /\ (calls[p].pc = "stop_isProjectRunning" /\ calls'[p] # calls[p] /\ ~running)
            => /\ dbState' = "opened"
               /\ stateChanging' = stateChanging
               /\ ~calls'[p].setMarker /\ ~calls'[p].signalled
               /\ calls[p].op = "stop" => calls'[p].pc = "returned"
       /\ (calls[p].pc = "stop_isProjectRunning" /\ calls'[p] # calls[p] /\ running)
            => /\ dbState' = "stopping" /\ stateChanging' = "stopping"
               /\ calls'[p].pc = "stop_getProjectPID" /\ ~calls'[p].signalled
       /\ (calls[p].pc = "stop_getProjectPID" /\ calls'[p] # calls[p])
            => (calls'[p].pc = "stop_until" /\ ~calls'[p].err)
       /\ calls[p].signalled => calls'[p].pc # "stop_getProjectPID"
       /\ (calls[p].cur = "stop" /\ calls[p].setMarker
             /\ calls'[p].pc = "finally_getState" /\ calls[p].pc # "finally_getState"
             /\ ~calls'[p].err)
            => (calls[p].pc = "stop_until" /\ ~running)]_vars

\* A stop() that signalled the backend has left its wait normally, the backend
\* not running.
C31_Witness ==
  \E p \in Calls :
    /\ calls[p].op = "stop" /\ calls[p].signalled /\ ~calls[p].err
    /\ calls[p].pc = "finally_getState"
    /\ ~running /\ stateChanging = Null

\* C32: once a stop() has sent the termination signal to a running backend,
\* the backend eventually stops running.
C32_EventuallyStopped ==
  \A p \in Calls :
    (calls[p].cur = "stop" /\ calls[p].signalled /\ running) ~> ~running

\* C33: the pre-flight steps follow each other in the order license hook,
\* run quota (stored when the step completes), filesystem and configuration;
\* the bring-up is reached only from the last of them, by a start() that set
\* the marker and persisted starting, and is invoked only from there; a
\* pre-flight step that throws goes to the finally block, launching nothing,
\* and the call then ends by throwing.
C33_BringUpAfterPreflight ==
  [][\A p \in Calls :
       /\ (calls'[p].pc # calls[p].pc /\ calls'[p].pc = "start_siteLicenseHook")
            => (calls[p].pc = "start_isProjectRunning" /\ ~running
                /\ dbState' = "starting" /\ stateChanging' = "starting")
       /\ (calls'[p].pc # calls[p].pc /\ calls'[p].pc = "start_setRunQuota")
            => calls[p].pc = "start_siteLicenseHook"
       /\ (calls'[p].pc # calls[p].pc /\ calls'[p].pc = "start_setup")
            => (calls[p].pc = "start_setRunQuota" /\ run_quota' = quota(settings))
       /\ (calls'[p].pc # calls[p].pc /\ calls'[p].pc = "start_launchProjectDaemon")
            => (calls[p].pc = "start_setup" /\ calls[p].setMarker /\ ~calls[p].err)
       /\ ((calls'[p].launched /\ ~calls[p].launched)
             \/ (daemonPending' /\ ~daemonPending /\ calls'[p] # calls[p]))
            => calls[p].pc = "start_launchProjectDaemon"
       /\ (calls[p].pc \in {"start_siteLicenseHook", "start_setRunQuota", "start_setup"}
             /\ calls'[p].err)
            => /\ calls'[p].pc = "finally_getState" /\ ~calls'[p].launched
               /\ daemonPending' = daemonPending
       /\ (calls[p].err /\ calls'[p] # calls[p]) => calls'[p].pc = "threw"]_vars

\* A start() is about to invoke the bring-up: the marker is set, the quota is
\* stored and nothing has been launched.
C33_Witness ==
  \E p \in Calls :
    /\ calls[p].op = "start" /\ calls[p].pc = "start_launchProjectDaemon"
    /\ calls[p].setMarker /\ ~calls[p].launched
    /\ stateChanging = "starting" /\ dbState = "starting"
    /\ run_quota = quota(settings) /\ ~running /\ ~daemonPending

\* C34: a restart() invoked on a running backend does not return in the step
\* that invokes it: it returns normally only after a tear-down and a bring-up
\* of its own, which take several awaited steps.
C34_RestartCycles ==
  [][\A p \in Calls :
       (Invokes(p, "restart") /\ running) => calls'[p].pc # "returned"]_vars

\* No start(), stop() or restart() is in flight.
Quiet == \A p \in Calls : calls[p].pc \in {"idle", "returned", "threw"}

\* C35: once the restart that setAllQuotas() began has finished without an
\* error and nothing else is in flight, the stored run_quota is the quota
\* computed from the settings, so that a further setAllQuotas() finds them
\* equal.
C35_RestartStoresQuota ==
  (Quiet /\ \E e \in log : e.msg = "restart worked")
    => isEqual(run_quota, quota(settings))

----------------------------------------------------------------------------
(* Properties of the registry under operations in flight                   *)

----------------------------------------------------------------------------
(* Properties of the dispatch under pending handlers                       *)

\* The step handles a message that arrived on connection c.
Dispatches(c) ==
  /\ last'.by = "mesg" /\ last'.type = "json" /\ last'.socket = c
  /\ last' # last \/ active_socket' # active_socket \/ pending' # pending

\* C37: a message is handled in the step in which it arrives, whatever is
\* pending: its synchronous effects happen in that step and no pending handler
\* is waited for; jupyter_execute and jupyter_kernels leave a pending handler
\* behind; when a pending handler settles, what it writes carries the id of
\* the request it was started for, and a pong the id of its ping.
C37_ReadLoopDoesNotWait ==
  [][/\ \A c \in Conns :
          Dispatches(c) =>
            /\ last'.effects = handleMessage(last'.mesg)
            /\ pending \subseteq pending'
            /\ last'.mesg.event \in {"jupyter_execute", "jupyter_kernels"}
                 => [socket |-> c, mesg |-> last'.mesg] \in pending'
            /\ last'.mesg.event = "ping"
                 => /\ Len(last'.effects) = 1 /\ IsReply(last'.effects[1], "pong")
                    /\ last'.effects[1].mesg.id = last'.mesg.id
     /\ (last'.by = "settled" /\ pending' # pending)
          => /\ [socket |-> last'.socket, mesg |-> last'.mesg] \in pending
             /\ pending' = pending \ {[socket |-> last'.socket, mesg |-> last'.mesg]}
             /\ \A i \in DOMAIN last'.effects :
                  /\ last'.effects[i].op = "write_mesg"
                  /\ last'.effects[i].mesg.id = last'.mesg.id]_vars

\* A ping that arrived after a jupyter_execute request was answered while
\* the handler of that request is still pending.
C37_Witness ==
  \E h \in pending :
    /\ h.mesg.event = "jupyter_execute" /\ h.mesg.id = Str("")
    /\ Handled("ping") /\ last.socket = h.socket /\ last.mesg.id = Str("x")
    /\ Len(last.effects) = 1 /\ IsReply(last.effects[1], "pong")
    /\ last.effects[1].mesg.id = Str("x")

\* C38: handling a message with event "error" has no effect at all: nothing
\* is written, no handler is called and nothing is left pending, with or
\* without an id.
C38_ErrorOnlyLogged ==
  /\ Handled("error") => last.effects = <<>>
  /\ \A h \in pending : h.mesg.event # "error"

\* An "error" message that carries an id was handled and nothing was written.
C38_Witness ==
  /\ Handled("error") /\ last.mesg.id = Str("x")
  /\ last.effects = <<>> /\ pending = {}
  /\ sock[last.socket].state = "open"

----------------------------------------------------------------------------
(* Properties of doSpawn                                                    *)

\* C39: cb is called at most once for each doSpawn, and callback_done tells
\* whether a spawned child's completion has been reported.
C39_CallbackAtMostOnce ==
  /\ Len(cbs) <= 1
  /\ spawnPc = "spawned" => (callback_done <=> Len(cbs) = 1)

\* The child ended and both streams ended after the timer had killed it and
\* reported it: cb was called once, with "killed command".
C39_Witness ==
  /\ timer = "fired" /\ killed /\ child.exited
  /\ stdout_is_done /\ stderr_is_done
  /\ Len(cbs) = 1 /\ cbs[1].err = "killed command"

\* C40: with a positive timeout, once the timer has fired cb has been called.
C40_CompletesByTimeout ==
  (opts.timeout > 0 /\ timer = "fired") => Len(cbs) >= 1

====
